---- MODULE Spec2Model ----
(***************************************************************************)
(* Model of the tap-helper signing core: the big-integer codec             *)
(* (src/core/buffer.ts), the signature codec and the sign / verify /       *)
(* signAndVerify engine (src/core/index.ts, second part), and the protocol *)
(* builders (src/unnamed/part_001).                                        *)
(*                                                                         *)
(* JavaScript values are tagged records [t |-> type, v |-> payload]; a     *)
(* string is a sequence of one-character strings, so that formatting and   *)
(* parsing are computed, not assumed.  A call's result is a record         *)
(* [kind |-> "return", val, calls] or [kind |-> "throw", err, calls],      *)
(* where calls lists the primitives the call invoked, in order.            *)
(*                                                                         *)
(* Widths: r and s are 32 bytes in the code.  TLC's integers are 32 bits,  *)
(* so the model keeps the code's structure with HalfLen bytes per half     *)
(* (2 * HalfLen hex digits, 2 * HalfLen signature bytes).  Key lengths are *)
(* the code's own 32 and 33.                                               *)
(***************************************************************************)
EXTENDS Integers, Sequences, FiniteSets, TLC

VARIABLES
  call,      \* the call being reported: [fn, args], fn = "none" between calls
  outcome,   \* what the call returned or threw
  draft,     \* the caller's protocol object as the call left it
  probe,     \* the hash the self-check of signAndVerify verified
  held       \* what the caller keeps of a result to pass to the next call

vars == <<call, outcome, draft, probe, held>>

(***************************** bounds **************************************)

\* bytes in r and in s (32 in the code: index.ts:171-172, buffer.ts:11)
HalfLen == 2

\* hex digits fromBigInt pads to by default (64 in the code = 2 per byte of a half)
PadLen == 2 * HalfLen

\* bytes of a raw signature (64 in the code)
SigLen == 2 * HalfLen

\* key lengths checked by getKeypairBuff
PrivKeyLen == 32

PubKeyLen == 33

(************************* JavaScript values *******************************)

Undefined == [t |-> "undefined"]

Null == [t |-> "null"]

Str(chars) == [t |-> "string", v |-> chars]

Num(n) == [t |-> "number", v |-> n]

Buf(bytes) == [t |-> "buffer", v |-> bytes]

\* an object is its members in insertion order, each <<key, value>>
Obj(members) == [t |-> "object", v |-> members]

Arr(items) == [t |-> "array", v |-> items]

NaN == [t |-> "nan"]

\* typeof x === "string"
IsString(x) == x.t = "string"

\* Buffer.isBuffer(x); a digest is a 32-byte Buffer
IsBuffer(x) == x.t \in {"buffer", "digest"}

\* the condition of  x ? a : b
Truthy(x) ==
  CASE x.t \in {"undefined", "null", "nan"} -> FALSE
    [] x.t = "string" -> x.v # <<>>
    [] x.t = "number" -> x.v # 0
    [] OTHER -> TRUE

HasKey(o, k) == \E i \in 1..Len(o.v) : o.v[i][1] = k

\* o[k] on an object, or on a primitive string (no such property)
Get(o, k) ==
  IF o.t = "object" /\ HasKey(o, k)
    THEN o.v[CHOOSE i \in 1..Len(o.v) : o.v[i][1] = k][2]
    ELSE Undefined

\* o[k] = x on an object: an existing key keeps its place, a new one is appended
Put(o, k, x) ==
  IF HasKey(o, k)
    THEN Obj([i \in 1..Len(o.v) |-> IF o.v[i][1] = k THEN <<k, x>> ELSE o.v[i]])
    ELSE Obj(Append(o.v, <<k, x>>))

Ret(x, c) == [kind |-> "return", val |-> x, calls |-> c]

Throw(e, c) == [kind |-> "throw", err |-> e, calls |-> c]

Err(name, message) == [name |-> name, message |-> message]

\* `${error}` of an Error object
ErrText(e) == e.name \o ": " \o e.message

(***************************** digits **************************************)

DecDigits == <<"0", "1", "2", "3", "4", "5", "6", "7", "8", "9">>

HexDigits == <<"0", "1", "2", "3", "4", "5", "6", "7",
               "8", "9", "a", "b", "c", "d", "e", "f">>

IsDecDigit(c) == \E i \in 1..10 : DecDigits[i] = c

IsHexDigit(c) == \E i \in 1..16 : HexDigits[i] = c

DecVal(c) == (CHOOSE i \in 1..10 : DecDigits[i] = c) - 1

HexVal(c) == (CHOOSE i \in 1..16 : HexDigits[i] = c) - 1

RECURSIVE NatToBase(_, _, _)
\* the digits of n >= 0 in the base of the digit table, no leading zeros
NatToBase(n, base, digits) ==
  IF n < base THEN <<digits[n + 1]>>
  ELSE NatToBase(n \div base, base, digits) \o <<digits[(n % base) + 1]>>

\* bigint.toString(radix)
BigIntToString(n, base, digits) ==
  IF n < 0 THEN <<"-">> \o NatToBase(0 - n, base, digits)
  ELSE NatToBase(n, base, digits)

RECURSIVE DigitsToNat(_, _, _)
DigitsToNat(chars, base, acc) ==
  IF chars = <<>> THEN acc
  ELSE DigitsToNat(Tail(chars), base,
         acc * base + (IF base = 16 THEN HexVal(Head(chars)) ELSE DecVal(Head(chars))))

AllDec(chars) == \A i \in 1..Len(chars) : IsDecDigit(chars[i])

AllHex(chars) == \A i \in 1..Len(chars) : IsHexDigit(chars[i])

\* BigInt(string): decimal digits with an optional sign, "0x" and hex digits,
\* the empty string as 0n; anything else is a SyntaxError
BigInt(chars) ==
  CASE chars = <<>> -> Ret(0, <<>>)
    [] chars # <<>> /\ AllDec(chars) -> Ret(DigitsToNat(chars, 10, 0), <<>>)
    [] Len(chars) > 1 /\ Head(chars) = "-" /\ AllDec(Tail(chars))
         -> Ret(0 - DigitsToNat(Tail(chars), 10, 0), <<>>)
    [] Len(chars) > 2 /\ chars[1] = "0" /\ chars[2] = "x" /\ AllHex(SubSeq(chars, 3, Len(chars)))
         -> Ret(DigitsToNat(SubSeq(chars, 3, Len(chars)), 16, 0), <<>>)
    [] OTHER -> Throw(Err("SyntaxError", "Cannot convert to a BigInt"), <<>>)

\* string.padStart(length, "0")
PadStart(chars, length) ==
  IF Len(chars) >= length THEN chars
  ELSE [i \in 1..(length - Len(chars)) |-> "0"] \o chars

\* buffer.toString("hex"): two digits per byte
BufToHex(bytes) ==
  [i \in 1..(2 * Len(bytes)) |->
     IF i % 2 = 1 THEN HexDigits[(bytes[(i + 1) \div 2] \div 16) + 1]
     ELSE HexDigits[(bytes[i \div 2] % 16) + 1]]

RECURSIVE HexToBuf(_)
\* Buffer.from(string, "hex"): one byte per pair of hex digits, stopping at
\* the first pair that is not two hex digits (an odd last digit is dropped)
HexToBuf(chars) ==
  IF Len(chars) < 2 \/ ~IsHexDigit(chars[1]) \/ ~IsHexDigit(chars[2]) THEN <<>>
  ELSE <<16 * HexVal(chars[1]) + HexVal(chars[2])>> \o HexToBuf(Tail(Tail(chars)))

(************************ core/buffer.ts ***********************************)

\* toBigInt(buffer) = BigInt("0x" + buffer.toString("hex"))
toBigInt(bytes) == BigInt(<<"0", "x">> \o BufToHex(bytes))

\* toBigIntStr(buffer) = toBigInt(buffer).toString()
toBigIntStr(bytes) ==
  LET n == toBigInt(bytes)
  IN  IF n.kind = "throw" THEN n
      ELSE Ret(Str(BigIntToString(n.val, 10, DecDigits)), <<>>)

\* fromBigInt with the padStart left out
fromBigIntUnpadded(n, length) == Buf(HexToBuf(BigIntToString(n, 16, HexDigits)))

\* fromBigInt(input, length) = Buffer.from(input.toString(16).padStart(length, "0"), "hex")
fromBigInt(n, length) == Buf(HexToBuf(PadStart(BigIntToString(n, 16, HexDigits), length)))

\* fromBigIntStr(input, length) = fromBigInt(BigInt(input), length)
fromBigIntStr(chars, length) ==
  LET n == BigInt(chars)
  IN  IF n.kind = "throw" THEN n ELSE Ret(fromBigInt(n.val, length), <<>>)

(***************************** text ****************************************)

\* string literals of the source, as character sequences
kP == <<"p">>

kOp == <<"o", "p">>

kSig == <<"s", "i", "g">>

kHash == <<"h", "a", "s", "h">>

kSalt == <<"s", "a", "l", "t">>

kPrv == <<"p", "r", "v">>

kAddress == <<"a", "d", "d", "r", "e", "s", "s">>

kVerify == <<"v", "e", "r", "i", "f", "y">>

kCol == <<"c", "o", "l">>

kSeq == <<"s", "e", "q">>

kTick == <<"t", "i", "c", "k">>

kAmt == <<"a", "m", "t">>

kAuth == <<"a", "u", "t", "h">>

kV == <<"v">>

kR == <<"r">>

kS == <<"s">>

sTap == <<"t", "a", "p">>

sPrivilegeAuth == <<"p", "r", "i", "v", "i", "l", "e", "g", "e", "-", "a", "u", "t", "h">>

sTokenMint == <<"t", "o", "k", "e", "n", "-", "m", "i", "n", "t">>

sUndefined == <<"u", "n", "d", "e", "f", "i", "n", "e", "d">>

sNull == <<"n", "u", "l", "l">>

RECURSIVE DefinedMembers(_)
\* the members of an object whose value is not undefined
DefinedMembers(members) ==
  IF members = <<>> THEN <<>>
  ELSE IF Head(members)[2].t = "undefined" THEN DefinedMembers(Tail(members))
  ELSE <<Head(members)>> \o DefinedMembers(Tail(members))

RECURSIVE JSONText(_)
RECURSIVE JSONMembers(_, _)
RECURSIVE JSONItems(_, _)
\* "key":value of the members from the i-th on, separated by commas
JSONMembers(members, i) ==
  IF i > Len(members) THEN <<>>
  ELSE (IF i > 1 THEN <<",">> ELSE <<>>)
       \o <<"\"">> \o members[i][1] \o <<"\"", ":">>
       \o JSONText(members[i][2]) \o JSONMembers(members, i + 1)

\* the items of an array from the i-th on, an undefined item as null
JSONItems(items, i) ==
  IF i > Len(items) THEN <<>>
  ELSE (IF i > 1 THEN <<",">> ELSE <<>>)
       \o (IF items[i].t = "undefined" THEN sNull ELSE JSONText(items[i]))
       \o JSONItems(items, i + 1)

\* the text JSON.stringify yields for a value that is not undefined: members
\* whose value is undefined are left out
JSONText(x) ==
  CASE x.t = "string" -> <<"\"">> \o x.v \o <<"\"">>
    [] x.t = "number" -> BigIntToString(x.v, 10, DecDigits)
    [] x.t = "object" -> <<"{">> \o JSONMembers(DefinedMembers(x.v), 1) \o <<"}">>
    [] x.t = "array" -> <<"[">> \o JSONItems(x.v, 1) \o <<"]">>
    [] OTHER -> sNull

\* JSON.stringify(x): undefined for undefined, else a string
JSONStringify(x) == IF x.t = "undefined" THEN Undefined ELSE Str(JSONText(x))

\* `${x}` for the values the engine interpolates
TemplateText(x) ==
  CASE x.t = "string" -> x.v
    [] x.t = "number" -> BigIntToString(x.v, 10, DecDigits)
    [] x.t = "undefined" -> sUndefined
    [] x.t = "null" -> sNull
    [] OTHER -> <<"[", "o", "b", "j", "e", "c", "t", "]">>

(******************* signature codec (core/index.ts) ***********************)

\* Number(string): the empty string is 0, decimal digits their value, else NaN
ToNumber(chars) ==
  CASE chars = <<>> -> Num(0)
    [] chars # <<>> /\ AllDec(chars) -> Num(DigitsToNat(chars, 10, 0))
    [] OTHER -> NaN

\* the Signature object literal { v, r, s }
SignatureObj(v, r, s) == Obj(<< <<kV, v>>, <<kR, r>>, <<kS, s>> >>)

\* splitSignature(sig, outputFormat), sig = { signature, recoveryId }
splitSignature(sig, outputFormat) ==
  IF ~IsBuffer(sig.signature)
    THEN Throw(Err("Error", "Invalid signature type"), <<>>)
  ELSE IF Len(sig.signature.v) # SigLen
    THEN Throw(Err("Error", "Invalid signature length"), <<>>)
  ELSE
    LET r == SubSeq(sig.signature.v, 1, HalfLen)
        s == SubSeq(sig.signature.v, HalfLen + 1, SigLen)
        v == Str(BigIntToString(sig.recoveryId.v, 10, DecDigits))
        rs == toBigIntStr(r)
        ss == toBigIntStr(s)
    IN  IF outputFormat = "hex"
          THEN Ret(SignatureObj(v, Str(BufToHex(r)), Str(BufToHex(s))), <<>>)
        ELSE IF rs.kind = "throw" THEN rs
        ELSE IF ss.kind = "throw" THEN ss
        ELSE Ret(SignatureObj(v, rs.val, ss.val), <<>>)

\* joinSignature with the halves concatenated as [s, r]
joinSignatureSwapped(sig) ==
  IF sig.t \notin {"object", "array", "buffer", "digest"}
    THEN Throw(Err("Error", "Invalid signature type"), <<>>)
  ELSE IF ~IsString(Get(sig, kR)) \/ ~IsString(Get(sig, kS)) \/ ~IsString(Get(sig, kV))
    THEN Throw(Err("Error", "Invalid signature format"), <<>>)
  ELSE
    LET r == fromBigIntStr(Get(sig, kR).v, PadLen)
        s == fromBigIntStr(Get(sig, kS).v, PadLen)
    IN  IF r.kind = "throw" THEN r
        ELSE IF s.kind = "throw" THEN s
        ELSE Ret([signature |-> Buf(s.val.v \o r.val.v),
                  recoveryId |-> ToNumber(Get(sig, kV).v)], <<>>)

\* joinSignature(sig)
joinSignature(sig) ==
  IF sig.t \notin {"object", "array", "buffer", "digest"}
    THEN Throw(Err("Error", "Invalid signature type"), <<>>)
  ELSE IF ~IsString(Get(sig, kR)) \/ ~IsString(Get(sig, kS)) \/ ~IsString(Get(sig, kV))
    THEN Throw(Err("Error", "Invalid signature format"), <<>>)
  ELSE
    LET r == fromBigIntStr(Get(sig, kR).v, PadLen)
        s == fromBigIntStr(Get(sig, kS).v, PadLen)
    IN  IF r.kind = "throw" THEN r
        ELSE IF s.kind = "throw" THEN s
        ELSE Ret([signature |-> Buf(r.val.v \o s.val.v),
                  recoveryId |-> ToNumber(Get(sig, kV).v)], <<>>)

(************************ the values calls are made with *******************)

\* a 32-byte big-endian scalar with value n < 256
KeyBytes(n) == [i \in 1..PrivKeyLen |-> IF i = PrivKeyLen THEN n ELSE 0]

PrivA == Buf(KeyBytes(1))

PrivB == Buf(KeyBytes(2))

\* 32 zero bytes: the right length, not a valid scalar
ZeroKey == Buf(KeyBytes(0))

\* Buffer.from("test_privKey"): 12 bytes
ShortKey == Buf(<<116, 101, 115, 116, 95, 112, 114, 105, 118, 75, 101, 121>>)

tM == <<"m">>

tM1 == <<"m", "1">>

tS == <<"s">>

t1S == <<"1", "s">>

tHi == <<"h", "i">>

tName == <<"n", "a", "m", "e">>

tTick == <<"t", "k">>

tAddr == <<"b", "c", "1">>

tCol == <<"c">>

tSha == <<"a", "b">>

tAuthId == <<"i", "d">>

\* what Math.random() may give as "" + salt
RandomSalts == {<<"0", ".", "2", "5">>, <<"0", ".", "5">>}

\* the payloads stored under messageKey
Payloads == {Str(tHi), Str(<<>>), Obj(<< <<tName, Str(tM)>> >>)}

\* every salt text a call can hash with
SaltTexts == {tS, t1S, <<>>, <<"5">>, tHi} \cup RandomSalts

(******************* the protocol builders' base messages ******************)

\* `${p}-${op}-${tick}-${amt}-${prv.address}-`
MintBase(p, op, tick, amt, address) ==
  TemplateText(p) \o <<"-">> \o TemplateText(op) \o <<"-">> \o TemplateText(tick)
    \o <<"-">> \o TemplateText(amt) \o <<"-">> \o TemplateText(address) \o <<"-">>

\* `${prv}-${col}-${verify}-${seq}-${address}-`
VerificationBase(prv, col, verify0, seq, address) ==
  TemplateText(prv) \o <<"-">> \o TemplateText(col) \o <<"-">> \o TemplateText(verify0)
    \o <<"-">> \o TemplateText(seq) \o <<"-">> \o TemplateText(address) \o <<"-">>

\* every base message a call can sign
BaseTexts ==
  {tM, tM1, <<>>}
    \cup {JSONText(x) : x \in Payloads}
    \cup {MintBase(Str(sTap), Str(sTokenMint), Str(tTick), Num(n), Str(tAddr)) : n \in {0, 1000}}
    \cup {VerificationBase(Str(a), Str(tCol), Str(tSha), Num(1), Str(tAddr)) : a \in {tAuthId, <<>>}}

SignedTexts == {b \o s : b \in BaseTexts, s \in SaltTexts}

RECURSIVE SetToSeq(_)
SetToSeq(S) ==
  IF S = {} THEN <<>>
  ELSE LET x == CHOOSE y \in S : TRUE IN <<x>> \o SetToSeq(S \ {x})

SignedTextSeq == SetToSeq(SignedTexts)

(******************* hash and curve backend (external) *********************)
(* SHA-256 is modelled as collision-free: a digest is its pre-image.  The  *)
(* curve backend is modelled by its contract (sign is deterministic,       *)
(* verify accepts exactly what sign produced for the key of the point,     *)
(* recover returns the signer's point), over the keys and hashes the       *)
(* model's calls use; its byte encoding is its own, not the codec's.       *)
(***************************************************************************)

Digest(text) == [t |-> "digest", v |-> text]

\* sha256(input): of the text, or of a buffer's bytes
sha256(input) ==
  IF IsString(input) THEN Digest(input.v) ELSE Digest(<<"0", "x">> \o BufToHex(input.v))

\* msgHash.toString("hex"), kept symbolic like the digest
DigestHex(d) == Str(<<"sha256:">> \o d.v)

\* the number of a hash among the hashes the model signs, 0 for any other
HashNum(d) ==
  IF d.v \in SignedTexts
    THEN CHOOSE i \in 1..Len(SignedTextSeq) : SignedTextSeq[i] = d.v
    ELSE 0

\* n as len big-endian bytes
BytesBE(n, len) == [i \in 1..len |-> (n \div (256 ^ (len - i))) % 256]

RECURSIVE ValueBE(_)
ValueBE(bytes) ==
  IF bytes = <<>> THEN 0
  ELSE 256 * ValueBE(SubSeq(bytes, 1, Len(bytes) - 1)) + bytes[Len(bytes)]

\* the group order: a little below the largest value of a half
CurveOrder == (256 ^ HalfLen) - (16 ^ HalfLen)

\* a valid private key: 32 bytes, 0 < d < n
IsPrivate(d) ==
  /\ d.t = "buffer"
  /\ Len(d.v) = PrivKeyLen
  /\ \E i \in 1..PrivKeyLen : d.v[i] # 0
  /\ \E i \in 1..PrivKeyLen : d.v[i] # 255

\* the compressed public key of a private key
PointFromScalar(d) == Buf(<<2>> \o d.v)

\* a valid compressed point: 33 bytes, prefix 2 or 3
IsPoint(q) ==
  /\ q.t = "buffer"
  /\ Len(q.v) = PubKeyLen
  /\ q.v[1] \in {2, 3}
  /\ IsPrivate(Buf(Tail(q.v)))

\* a well-formed raw signature: SigLen bytes, r and s below the order
IsSignature(x) ==
  /\ x.t = "buffer"
  /\ Len(x.v) = SigLen
  /\ ValueBE(SubSeq(x.v, 1, HalfLen)) < CurveOrder
  /\ ValueBE(SubSeq(x.v, HalfLen + 1, SigLen)) < CurveOrder

SigR(d) == ValueBE(SubSeq(d.v, PrivKeyLen - HalfLen + 1, PrivKeyLen))

SigS(h) == 255 + HashNum(h)

\* ecc.signRecoverable(hash, privateKey)
eccSignRecoverable(h, d) ==
  IF ~IsPrivate(d) THEN Throw(Err("TypeError", "Expected Private"), <<>>)
  ELSE Ret([signature |-> Buf(BytesBE(SigR(d), HalfLen) \o BytesBE(SigS(h), HalfLen)),
            recoveryId |-> Num((SigR(d) + HashNum(h)) % 2)], <<>>)

\* ecc.verify(hash, publicKey, signature)
eccVerify(h, q, sig) ==
  IF ~IsPoint(q) THEN Throw(Err("TypeError", "Expected Point"), <<>>)
  ELSE IF ~IsSignature(sig) THEN Throw(Err("TypeError", "Expected Signature"), <<>>)
  ELSE Ret(/\ q.v[1] = 2
           /\ eccSignRecoverable(h, Buf(Tail(q.v))).val.signature = sig, <<>>)

\* ecc.recover(hash, signature, recoveryId, compressed): the signer's point;
\* for a signature no key of the model made, no point (odd recovery id) or
\* the point of a key outside the model
eccRecover(h, sig, recoveryId, compressed) ==
  IF ~IsSignature(sig) THEN Throw(Err("TypeError", "Expected Signature"), <<>>)
  ELSE IF ValueBE(SubSeq(sig.v, 1, HalfLen)) = 0 \/ ValueBE(SubSeq(sig.v, HalfLen + 1, SigLen)) = 0
    THEN Throw(Err("TypeError", "Expected Signature"), <<>>)
  ELSE
    LET made(d) == eccSignRecoverable(h, d).val = [signature |-> sig, recoveryId |-> recoveryId]
    IN  IF \E d \in {PrivA, PrivB} : made(d)
          THEN Ret(PointFromScalar(CHOOSE d \in {PrivA, PrivB} : made(d)), <<>>)
        ELSE IF recoveryId = Num(1) THEN Ret(Null, <<>>)
        ELSE Ret(Buf(<<3>> \o KeyBytes(sig.v[HalfLen])), <<>>)

(********************* sign / verify (core/index.ts) ***********************)

\* sign without its catch block: the error goes out as it came
SignRethrown(e, c) == Throw(e, c)

\* the catch block of sign
SignCaught(e, c) == Throw(Err("Error", "Failed to sign the message: " \o ErrText(e)), c)

\* the try block of sign once splitSignature has run
signSplit(msgHash, signature) ==
  IF signature.kind = "throw"
    THEN SignCaught(signature.err, <<"sha256", "signRecoverable", "splitSignature">>)
    ELSE Ret([signature |-> signature.val, msgHash |-> msgHash],
             <<"sha256", "signRecoverable", "splitSignature">>)

\* the try block of sign once the signer has run
signSigned(msgHash, recoverableSig) ==
  IF recoverableSig.kind = "throw"
    THEN SignCaught(recoverableSig.err, <<"sha256", "signRecoverable">>)
    ELSE signSplit(msgHash, splitSignature(recoverableSig.val, "number"))

\* the try block of sign once the text is hashed
signHashed(msgHash, privKeyBuffer) ==
  signSigned(msgHash, eccSignRecoverable(msgHash, privKeyBuffer))

\* sign without the validation of its arguments
signUnvalidated(message, privKeyBuffer, salt) ==
  signHashed(sha256(Str(TemplateText(message) \o TemplateText(salt))), privKeyBuffer)

\* sign(message, privKeyBuffer, salt)
sign(message, privKeyBuffer, salt) ==
  IF ~IsString(message) \/ ~IsBuffer(privKeyBuffer) \/ ~IsString(salt)
    THEN Throw(Err("Error", "Invalid input types"), <<>>)
    ELSE signHashed(sha256(Str(TemplateText(message) \o TemplateText(salt))), privKeyBuffer)

\* the fallback buffer one byte short
RecoveredHexShort(recovered) ==
  IF recovered = Null THEN BufToHex([i \in 1..(PubKeyLen - 1) |-> 0])
  ELSE BufToHex(recovered.v)

\* Buffer.from(recovered ?? new Uint8Array(33)).toString("hex")
RecoveredHex(recovered) ==
  IF recovered = Null THEN BufToHex([i \in 1..PubKeyLen |-> 0]) ELSE BufToHex(recovered.v)

\* verify once ecc.recover has run
verifyRecovered(pubKeyBuffer, isValid, recovered, protocol) ==
  IF recovered.kind = "throw"
    THEN Throw(recovered.err, <<"joinSignature", "verify", "recover">>)
    ELSE Ret([test |-> [valid |-> isValid,
                        pub |-> BufToHex(pubKeyBuffer.v),
                        pubRecovered |-> RecoveredHex(recovered.val)],
              result |-> JSONStringify(protocol)],
             <<"joinSignature", "verify", "recover">>)

\* verify once ecc.verify has run
verifyChecked(hash, pubKeyBuffer, sig, isValid, protocol) ==
  IF isValid.kind = "throw"
    THEN Throw(isValid.err, <<"joinSignature", "verify">>)
    ELSE verifyRecovered(pubKeyBuffer, isValid.val,
                         eccRecover(hash, sig.signature, sig.recoveryId, TRUE), protocol)

\* verify once joinSignature has run
verifyJoined(hash, pubKeyBuffer, sig, protocol) ==
  IF sig.kind = "throw"
    THEN Throw(sig.err, <<"joinSignature">>)
    ELSE verifyChecked(hash, pubKeyBuffer, sig.val,
                       eccVerify(hash, pubKeyBuffer, sig.val.signature), protocol)

\* verify(hash, pubKeyBuffer, signature, protocol)
verify(hash, pubKeyBuffer, signature, protocol) ==
  verifyJoined(hash, pubKeyBuffer, joinSignature(signature), protocol)

\* protocol.prv ? protocol.prv.salt : protocol.salt
ReadSalt(protocol) ==
  IF Truthy(Get(protocol, kPrv)) THEN Get(Get(protocol, kPrv), kSalt) ELSE Get(protocol, kSalt)

\* the two assignments made on the draft itself as well as under prv
WriteSigHashBoth(protocol, signature, hashHex) ==
  IF Truthy(Get(protocol, kPrv))
    THEN Put(Put(Put(protocol, kPrv,
                     Put(Put(Get(protocol, kPrv), kSig, signature), kHash, hashHex)),
                 kSig, signature), kHash, hashHex)
    ELSE Put(Put(protocol, kSig, signature), kHash, hashHex)

\* the two assignments with different conditions: sig under prv, hash on the
\* draft itself
WriteSigHashMixed(protocol, signature, hashHex) ==
  IF Truthy(Get(protocol, kPrv))
    THEN Put(Put(protocol, kPrv, Put(Get(protocol, kPrv), kSig, signature)), kHash, hashHex)
    ELSE Put(Put(protocol, kSig, signature), kHash, hashHex)

\* the two assignments of signAndVerify: sig and hash go under prv when the
\* draft has a truthy prv, else on the draft itself
WriteSigHash(protocol, signature, hashHex) ==
  IF Truthy(Get(protocol, kPrv))
    THEN Put(protocol, kPrv, Put(Put(Get(protocol, kPrv), kSig, signature), kHash, hashHex))
    ELSE Put(Put(protocol, kSig, signature), kHash, hashHex)

\* the self-check with messageKey ignored
TestMessageBase(test_protocol, baseMessage, messageKey) == baseMessage

\* the text the self-check hashes
TestMessage(test_protocol, baseMessage, messageKey) ==
  IF Truthy(messageKey)
    THEN JSONStringify(Get(test_protocol, messageKey.v))
    ELSE baseMessage

\* test_protocol.prv ? test_protocol.prv.sig : test_protocol.sig
TestSig(test_protocol) ==
  IF Truthy(Get(test_protocol, kPrv)) THEN Get(Get(test_protocol, kPrv), kSig)
  ELSE Get(test_protocol, kSig)

\* a result with the calls made before it put in front of its own
After(calls, result) == [result EXCEPT !.calls = calls \o @]

\* signAndVerify once sig and hash are written: the self-check
signAndVerifyWritten(protocol, keypair, baseMessage, messageKey, salt, calls) ==
  LET test_message == TestMessage(protocol, baseMessage, messageKey)
      test_msgHash == sha256(Str(TemplateText(test_message) \o TemplateText(salt)))
  IN  [res |-> After(calls \o <<"sha256">>,
                     verify(test_msgHash, keypair.pubKeyBuffer, TestSig(protocol), protocol)),
       draft |-> protocol,
       test_msgHash |-> test_msgHash]

\* signAndVerify once sign has run
signAndVerifySigned(protocol, keypair, baseMessage, messageKey, salt, signed) ==
  IF signed.kind = "throw"
    THEN [res |-> signed, draft |-> protocol, test_msgHash |-> Undefined]
    ELSE signAndVerifyWritten(
           WriteSigHash(protocol, signed.val.signature, DigestHex(signed.val.msgHash)),
           keypair, baseMessage, messageKey, salt, signed.calls)

\* signAndVerify once the salt is read
signAndVerifySalted(protocol, keypair, baseMessage, messageKey, salt) ==
  signAndVerifySigned(protocol, keypair, baseMessage, messageKey, salt,
                      sign(baseMessage, keypair.privKeyBuffer, salt))

\* signAndVerify(protocol, keypair, baseMessage, messageKey): the result, the
\* caller's draft as the call leaves it, and the hash the self-check verified
signAndVerify(protocol, keypair, baseMessage, messageKey) ==
  signAndVerifySalted(protocol, keypair, baseMessage, messageKey, ReadSalt(protocol))

\* getKeypairBuff(privKey, pubKey): a hex string is decoded, a Buffer is kept
getKeypairBuff(privKey, pubKey) ==
  LET privKeyBuffer == IF IsBuffer(privKey) THEN privKey ELSE Buf(HexToBuf(privKey.v))
      pubKeyBuffer == IF IsBuffer(pubKey) THEN pubKey ELSE Buf(HexToBuf(pubKey.v))
  IN  IF Len(privKeyBuffer.v) # PrivKeyLen \/ Len(pubKeyBuffer.v) # PubKeyLen
        THEN Throw(Err("Error", "Invalid key length"), <<>>)
        ELSE Ret([privKeyBuffer |-> privKeyBuffer, pubKeyBuffer |-> pubKeyBuffer], <<>>)

(********************* protocol builders (part_001) ************************)

UpperLetters == <<"A", "B", "C", "D", "E", "F", "G", "H", "I", "J", "K", "L", "M",
                  "N", "O", "P", "Q", "R", "S", "T", "U", "V", "W", "X", "Y", "Z">>

LowerLetters == <<"a", "b", "c", "d", "e", "f", "g", "h", "i", "j", "k", "l", "m",
                  "n", "o", "p", "q", "r", "s", "t", "u", "v", "w", "x", "y", "z">>

\* string.toLowerCase()
ToLowerCase(chars) ==
  [i \in 1..Len(chars) |->
     IF \E j \in 1..26 : UpperLetters[j] = chars[i]
       THEN LowerLetters[CHOOSE j \in 1..26 : UpperLetters[j] = chars[i]]
       ELSE chars[i]]

\* a builder's outcome when getKeypairBuff throws
NoDraft(thrown) == [res |-> thrown, draft |-> Undefined, test_msgHash |-> Undefined]

\* signAuth(privKey, pubKey, messageKey, message, salt)
signAuth(privKey, pubKey, messageKey, message, salt) ==
  LET keypair == getKeypairBuff(privKey, pubKey)
      protocol ==
        Put(Obj(<< <<kP, Str(sTap)>>, <<kOp, Str(sPrivilegeAuth)>>, <<kSig, Null>>,
                   <<kHash, Null>>, <<kSalt, Str(TemplateText(salt))>> >>),
            messageKey.v, message)
      baseMessage == JSONStringify(message)
  IN  IF keypair.kind = "throw" THEN NoDraft(keypair)
      ELSE signAndVerify(protocol, keypair.val, baseMessage, messageKey)

\* signMint(privKey, pubKey, ticker, amount, address, salt)
signMint(privKey, pubKey, ticker, amount, address, salt) ==
  LET keypair == getKeypairBuff(privKey, pubKey)
      protocol ==
        Obj(<< <<kP, Str(sTap)>>, <<kOp, Str(sTokenMint)>>,
               <<kTick, Str(ToLowerCase(ticker.v))>>, <<kAmt, amount>>,
               <<kPrv, Obj(<< <<kSig, Null>>, <<kHash, Null>>, <<kAddress, address>>,
                              <<kSalt, Str(TemplateText(salt))>> >>)>> >>)
      baseMessage ==
        Str(MintBase(Get(protocol, kP), Get(protocol, kOp), Get(protocol, kTick),
                     Get(protocol, kAmt), Get(Get(protocol, kPrv), kAddress)))
  IN  IF keypair.kind = "throw" THEN NoDraft(keypair)
      ELSE signAndVerify(protocol, keypair.val, baseMessage, Null)

\* signVerification(privKey, pubKey, privilege_authority_id, sha256_hash,
\*                  collection, sequence, address, salt)
signVerification(privKey, pubKey, privilege_authority_id, sha256_hash, collection, sequence, address, salt) ==
  LET keypair == getKeypairBuff(privKey, pubKey)
      protocol ==
        Obj(<< <<kP, Str(sTap)>>, <<kOp, Str(sPrivilegeAuth)>>, <<kSig, Null>>,
               <<kHash, Null>>, <<kAddress, address>>, <<kSalt, Str(TemplateText(salt))>>,
               <<kPrv, privilege_authority_id>>, <<kVerify, sha256_hash>>,
               <<kCol, collection>>, <<kSeq, sequence>> >>)
      baseMessage ==
        Str(VerificationBase(Get(protocol, kPrv), Get(protocol, kCol), Get(protocol, kVerify),
                             Get(protocol, kSeq), Get(protocol, kAddress)))
  IN  IF keypair.kind = "throw" THEN NoDraft(keypair)
      ELSE signAndVerify(protocol, keypair.val, baseMessage, Null)

(***************************** arguments ***********************************)

ByteVals == {0, 1, 255}

\* every buffer of n bytes over ByteVals
Buffers(n) == {Buf(b) : b \in [1..n -> ByteVals]}

MessageArgs == {Str(tM), Str(tM1), Str(<<>>), Num(7), Null}

KeyArgs == {PrivA, PrivB, ZeroKey, ShortKey, Str(tM)}

SaltArgs == {Str(tS), Str(t1S), Str(<<>>), Num(5), Undefined}

PubA == PointFromScalar(PrivA)

PubB == PointFromScalar(PrivB)

\* the two public keys, a point of no model key, and a buffer that is no point
PubArgs == {PubA, PubB, Buf(<<3>> \o KeyBytes(1)), Buf(<<2, 1>>)}

ZeroSignature == SignatureObj(Str(<<"0">>), Str(<<"0">>), Str(<<"0">>))

\* what the backend signs for "m" + "s" under PrivA, as a Signature
GenuineSignature ==
  LET made == eccSignRecoverable(sha256(Str(tM \o tS)), PrivA).val
      dec(n) == Str(BigIntToString(n, 10, DecDigits))
  IN  SignatureObj(dec(made.recoveryId.v),
                   dec(ValueBE(SubSeq(made.signature.v, 1, HalfLen))),
                   dec(ValueBE(SubSeq(made.signature.v, HalfLen + 1, SigLen))))

\* Signature arguments: all-zero, a genuine one, and malformed ones
SignatureArgs ==
  { ZeroSignature,
    SignatureObj(Str(<<"1">>), Str(<<"0">>), Str(<<"7">>)),
    SignatureObj(Str(<<"0">>), Str(<<"1">>), Str(<<"7">>)),
    SignatureObj(Str(<<"1">>), Str(<<"1">>), Str(<<"7">>)),
    GenuineSignature,
    SignatureObj(Str(<<"0">>), Str(<<"x">>), Str(<<"1">>)),
    SignatureObj(Str(<<"0">>), Str(BigIntToString(256 ^ HalfLen, 10, DecDigits)), Str(<<"1">>)),
    SignatureObj(Str(<<"0">>), Num(1), Str(<<"1">>)),
    Obj(<< <<kV, Str(<<"0">>)>>, <<kR, Str(<<"1">>)>> >>),
    Str(tM),
    Null }

\* what joinSignature alone is also called with: a v that is no recovery id,
\* one that is no number, and an r with two hex digits more than a half holds
JoinSignatureArgs ==
  SignatureArgs \cup {SignatureObj(Str(<<"7">>), Str(<<"1">>), Str(<<"7">>)),
                      SignatureObj(Str(<<"x">>), Str(<<"1">>), Str(<<"7">>)),
                      SignatureObj(Str(<<"0">>),
                                   Str(BigIntToString(16 * (256 ^ HalfLen), 10, DecDigits)),
                                   Str(<<"1">>))}

HashArgs == {sha256(Str(tM \o tS)), sha256(Str(tM))}

\* decimal strings around the fixed width, and strings that are no numbers
BigIntStrArgs ==
  {BigIntToString(n, 10, DecDigits) :
     n \in {0, 1, 255, 256, (256 ^ HalfLen) - 1, 256 ^ HalfLen,
            (16 * (256 ^ HalfLen)) - 1, 16 * (256 ^ HalfLen)}}
    \cup {<<>>, <<"0", "0", "7">>, <<"x">>, <<"-", "1">>}

\* { p, op, sig, hash, salt } and a payload under "auth"
FlatDraft(salt, payload) ==
  Obj(<< <<kP, Str(sTap)>>, <<kOp, Str(sPrivilegeAuth)>>, <<kSig, Null>>, <<kHash, Null>>,
         <<kSalt, salt>>, <<kAuth, payload>> >>)

\* { p, op, tick, amt, prv: { sig, hash, address, salt } }
NestedDraft(salt) ==
  Obj(<< <<kP, Str(sTap)>>, <<kOp, Str(sTokenMint)>>, <<kTick, Str(tTick)>>, <<kAmt, Num(1000)>>,
         <<kPrv, Obj(<< <<kSig, Null>>, <<kHash, Null>>, <<kAddress, Str(tAddr)>>,
                        <<kSalt, salt>> >>)>> >>)

DraftArgs ==
  { FlatDraft(Str(tS), Obj(<< <<tName, Str(tM)>> >>)),
    FlatDraft(Str(t1S), Str(tHi)),
    FlatDraft(Num(5), Str(tHi)),
    NestedDraft(Str(tS)),
    Put(FlatDraft(Str(tS), Str(tHi)), kPrv, Str(tAuthId)) }

KeypairArgs ==
  { [privKeyBuffer |-> PrivA, pubKeyBuffer |-> PubA],
    [privKeyBuffer |-> PrivB, pubKeyBuffer |-> PubA],
    [privKeyBuffer |-> ShortKey, pubKeyBuffer |-> PubA] }

BaseMessageArgs == {Str(tM), Str(JSONText(Obj(<< <<tName, Str(tM)>> >>))), Str(JSONText(Str(tHi)))}

MessageKeyArgs == {Null, Str(<<>>), Str(kAuth), Str(kSig), Str(<<"x">>)}

\* keys as the builders take them: Buffers or hex strings
BuilderKeyArgs ==
  { <<PrivA, PubA>>, <<PrivA, PubB>>, <<Str(BufToHex(PrivB.v)), Str(BufToHex(PubB.v))>>,
    <<ShortKey, PubA>> }

\* the salt a builder is given: a number, a string, or the Math.random() default
BuilderSaltArgs == {Num(5), Str(tS)} \cup {Str(r) : r \in RandomSalts}

AuthKeyArgs == {Str(k) : k \in {kAuth, kP, kOp, kSig, kHash, kSalt, kPrv, <<>>}}

None == [t |-> "none"]

NoCall == [fn |-> "none"]

(****************************** calls **************************************)

Idle == call = NoCall /\ held = None

Init ==
  /\ call = NoCall
  /\ outcome = None
  /\ draft = Undefined
  /\ probe = Undefined
  /\ held = None

\* a call of a function that touches no draft
Report(fn, args, result) ==
  /\ call' = [fn |-> fn, args |-> args]
  /\ outcome' = result
  /\ draft' = Undefined
  /\ probe' = Undefined
  /\ held' = None

\* a call that works on a draft
ReportDraft(fn, args, result) ==
  \E done \in {result} :
    /\ call' = [fn |-> fn, args |-> args]
    /\ outcome' = done.res
    /\ draft' = done.draft
    /\ probe' = done.test_msgHash
    /\ held' = None

CallToBigIntStr ==
  /\ Idle
  /\ \E b \in Buffers(HalfLen) \cup Buffers(1) :
       Report("toBigIntStr", [buffer |-> b], toBigIntStr(b.v))

CallFromBigIntStr ==
  /\ Idle
  /\ \E input \in BigIntStrArgs :
       Report("fromBigIntStr", [input |-> input, length |-> PadLen],
              fromBigIntStr(input, PadLen))

CallSplitSignature ==
  /\ Idle
  /\ \E b \in Buffers(SigLen) \cup Buffers(SigLen - 1) \cup {Str(tM)},
        recoveryId \in {0, 1}, outputFormat \in {"number", "hex"} :
       Report("splitSignature",
              [signature |-> b, recoveryId |-> Num(recoveryId), outputFormat |-> outputFormat],
              splitSignature([signature |-> b, recoveryId |-> Num(recoveryId)], outputFormat))

\* the caller keeps the Signature that splitSignature returned
KeepSignature ==
  /\ call.fn = "splitSignature"
  /\ call.args.outputFormat = "number"
  /\ outcome.kind = "return"
  /\ held' = [of |-> "splitSignature", signature |-> outcome.val,
              raw |-> call.args.signature, recoveryId |-> call.args.recoveryId]
  /\ call' = NoCall
  /\ outcome' = None
  /\ UNCHANGED <<draft, probe>>

\* joinSignature on the Signature kept from splitSignature
CallJoinKept ==
  /\ call = NoCall
  /\ held # None
  /\ held.of = "splitSignature"
  /\ Report("joinSignature",
            [sig |-> held.signature, raw |-> held.raw, recoveryId |-> held.recoveryId,
             from |-> "splitSignature"],
            joinSignature(held.signature))

CallJoinSignature ==
  /\ Idle
  /\ \E sig \in JoinSignatureArgs :
       Report("joinSignature", [sig |-> sig, from |-> "caller"], joinSignature(sig))

CallSign ==
  /\ Idle
  /\ \E message \in MessageArgs, privKeyBuffer \in KeyArgs, salt \in SaltArgs :
       Report("sign", [message |-> message, privKeyBuffer |-> privKeyBuffer, salt |-> salt],
              sign(message, privKeyBuffer, salt))

\* the caller keeps what sign returned, with the key it signed with
KeepSigned ==
  /\ call.fn = "sign"
  /\ outcome.kind = "return"
  /\ held' = [of |-> "sign", signature |-> outcome.val.signature,
              msgHash |-> outcome.val.msgHash, privKeyBuffer |-> call.args.privKeyBuffer]
  /\ call' = NoCall
  /\ outcome' = None
  /\ UNCHANGED <<draft, probe>>

\* verify on the hash and signature kept from sign (no protocol argument)
CallVerifyKept ==
  /\ call = NoCall
  /\ held # None
  /\ held.of = "sign"
  /\ \E pubKeyBuffer \in PubArgs :
       Report("verify",
              [hash |-> held.msgHash, pubKeyBuffer |-> pubKeyBuffer, signature |-> held.signature,
               privKeyBuffer |-> held.privKeyBuffer, from |-> "sign"],
              verify(held.msgHash, pubKeyBuffer, held.signature, Undefined))

CallVerify ==
  /\ Idle
  /\ \E hash \in HashArgs, pubKeyBuffer \in PubArgs, signature \in SignatureArgs,
        protocol \in {Undefined, NestedDraft(Str(tS))} :
       Report("verify",
              [hash |-> hash, pubKeyBuffer |-> pubKeyBuffer, signature |-> signature,
               protocol |-> protocol, from |-> "caller"],
              verify(hash, pubKeyBuffer, signature, protocol))

CallSignAndVerify ==
  /\ Idle
  /\ \E protocol \in DraftArgs, keypair \in KeypairArgs, baseMessage \in BaseMessageArgs,
        messageKey \in MessageKeyArgs :
       ReportDraft("signAndVerify",
                   [protocol |-> protocol, keypair |-> keypair, baseMessage |-> baseMessage,
                    messageKey |-> messageKey],
                   signAndVerify(protocol, keypair, baseMessage, messageKey))

CallGetKeypairBuff ==
  /\ Idle
  /\ \E k \in BuilderKeyArgs :
       Report("getKeypairBuff", [privKey |-> k[1], pubKey |-> k[2]], getKeypairBuff(k[1], k[2]))

CallSignAuth ==
  /\ Idle
  /\ \E k \in BuilderKeyArgs, messageKey \in AuthKeyArgs, message \in Payloads,
        salt \in BuilderSaltArgs :
       ReportDraft("signAuth",
                   [privKey |-> k[1], pubKey |-> k[2], messageKey |-> messageKey,
                    message |-> message, salt |-> salt],
                   signAuth(k[1], k[2], messageKey, message, salt))

CallSignMint ==
  /\ Idle
  /\ \E k \in BuilderKeyArgs, amount \in {Num(0), Num(1000)}, salt \in BuilderSaltArgs :
       ReportDraft("signMint",
                   [privKey |-> k[1], pubKey |-> k[2], ticker |-> Str(<<"T", "k">>),
                    amount |-> amount, address |-> Str(tAddr), salt |-> salt],
                   signMint(k[1], k[2], Str(<<"T", "k">>), amount, Str(tAddr), salt))

CallSignVerification ==
  /\ Idle
  /\ \E k \in BuilderKeyArgs, privilege_authority_id \in {Str(tAuthId), Str(<<>>)},
        salt \in BuilderSaltArgs :
       ReportDraft("signVerification",
                   [privKey |-> k[1], pubKey |-> k[2],
                    privilege_authority_id |-> privilege_authority_id, sha256_hash |-> Str(tSha),
                    collection |-> Str(tCol), sequence |-> Num(1), address |-> Str(tAddr),
                    salt |-> salt],
                   signVerification(k[1], k[2], privilege_authority_id, Str(tSha), Str(tCol),
                                    Num(1), Str(tAddr), salt))

\* the caller is done with the result; nothing outlives a call
Discard ==
  /\ call # NoCall
  /\ call' = NoCall
  /\ outcome' = None
  /\ draft' = Undefined
  /\ probe' = Undefined
  /\ held' = None

Next ==
  \/ CallToBigIntStr
  \/ CallFromBigIntStr
  \/ CallSplitSignature
  \/ KeepSignature
  \/ CallJoinKept
  \/ CallJoinSignature
  \/ CallSign
  \/ KeepSigned
  \/ CallVerifyKept
  \/ CallVerify
  \/ CallSignAndVerify
  \/ CallGetKeypairBuff
  \/ CallSignAuth
  \/ CallSignMint
  \/ CallSignVerification
  \/ Discard

Spec == Init /\ [][Next]_vars

(****************************** properties *********************************)

\* the call that just ended
Called(fn) == call.fn = fn

Returned(fn) == call.fn = fn /\ outcome.kind = "return"

Threw(fn) == call.fn = fn /\ outcome.kind = "throw"

\* the object of a finished draft that holds sig and hash
Place(d) == IF Truthy(Get(d, kPrv)) THEN Get(d, kPrv) ELSE d

\* C1: signAndVerify never returns a result whose test.valid is false: a
\* call that returns has left sig and hash non-null in the draft and the
\* self-verification is true; anything else is an error.
C1_NeverReturnsInvalid ==
  Returned("signAndVerify") =>
    /\ outcome.val.test.valid = TRUE
    /\ Get(Place(draft), kSig) \notin {Null, Undefined}
    /\ Get(Place(draft), kHash) \notin {Null, Undefined}

C3_RoundTrip ==
  /\ (/\ Called("splitSignature")
      /\ IsBuffer(call.args.signature)
      /\ Len(call.args.signature.v) = SigLen) => outcome.kind = "return"
  /\ (Called("joinSignature") /\ call.args.from = "splitSignature") =>
       outcome = Ret([signature |-> call.args.raw, recoveryId |-> call.args.recoveryId], <<>>)

\* a round trip of a buffer whose first half is all zero and whose second
\* half starts with a zero byte
C3_Witness ==
  /\ Returned("joinSignature")
  /\ call.args.from = "splitSignature"
  /\ SubSeq(call.args.raw.v, 1, HalfLen) = [i \in 1..HalfLen |-> 0]
  /\ call.args.raw.v[HalfLen + 1] = 0
  /\ call.args.raw.v[SigLen] = 255
  /\ call.args.recoveryId = Num(1)

\* the keys a builder was called with are a valid pair
ValidPair(privKey, pubKey) ==
  /\ getKeypairBuff(privKey, pubKey).kind = "return"
  /\ IsPrivate(getKeypairBuff(privKey, pubKey).val.privKeyBuffer)
  /\ getKeypairBuff(privKey, pubKey).val.pubKeyBuffer
       = PointFromScalar(getKeypairBuff(privKey, pubKey).val.privKeyBuffer)

\* C4: signVerification with a valid key pair and any authority id returns a
\* result; sig and hash are on the draft itself, the salt was read from
\* draft.salt, and prv is still the authority id.
C4_FlatVerification ==
  (Called("signVerification") /\ ValidPair(call.args.privKey, call.args.pubKey)) =>
    /\ outcome.kind = "return"
    /\ Get(draft, kSig) \notin {Null, Undefined}
    /\ Get(draft, kHash) \notin {Null, Undefined}
    /\ Get(draft, kPrv) = call.args.privilege_authority_id

\* C5: verify with the signature { v: "0", r: "0", s: "0" } and a 33-byte
\* public key returns nothing: it throws an error whose message is "Failed to
\* recover the public key: " and the cause.
C5_ZeroSignatureRecoveryFailed ==
  (/\ Called("verify")
   /\ call.args.signature = ZeroSignature
   /\ Len(call.args.pubKeyBuffer.v) = PubKeyLen) =>
    /\ outcome.kind = "throw"
    /\ outcome.err.message \in
         {"Failed to recover the public key: " \o ErrText(Err("TypeError", m)) :
            m \in {"Expected Signature", "Expected Point"}}

\* C6 as stated: a message or salt that is no text, or a key that is no
\* buffer of exactly 32 bytes, makes sign throw "Invalid input types" before
\* the hash or the signer is called.
C6_ValidatesKeyLength ==
  (/\ Called("sign")
   /\ \/ ~IsString(call.args.message)
      \/ ~IsString(call.args.salt)
      \/ ~IsBuffer(call.args.privKeyBuffer)
      \/ Len(call.args.privKeyBuffer.v) # PrivKeyLen) =>
    outcome = Throw(Err("Error", "Invalid input types"), <<>>)

\* C6 amended: a message or salt that is no text, or a key that is no buffer,
\* makes sign throw "Invalid input types" before the hash or the signer is
\* called; a buffer of another length than 32 bytes passes this validation,
\* is given to the signer after hashing, and sign throws "Failed to sign the
\* message: " and the signer's error.
C6_ValidatesTypes ==
  /\ (/\ Called("sign")
      /\ \/ ~IsString(call.args.message)
         \/ ~IsString(call.args.salt)
         \/ ~IsBuffer(call.args.privKeyBuffer)) =>
       outcome = Throw(Err("Error", "Invalid input types"), <<>>)
  /\ (/\ Called("sign")
      /\ IsString(call.args.message)
      /\ IsString(call.args.salt)
      /\ IsBuffer(call.args.privKeyBuffer)
      /\ Len(call.args.privKeyBuffer.v) # PrivKeyLen) =>
       outcome = Throw(Err("Error", "Failed to sign the message: TypeError: Expected Private"),
                       <<"sha256", "signRecoverable">>)

C6_Witness ==
  /\ Threw("sign")
  /\ call.args.privKeyBuffer = ShortKey
  /\ call.args.message = Str(tM)
  /\ call.args.salt = Str(tS)

\* C7: when the signer fails inside sign (the key buffer is no valid scalar),
\* sign throws an Error whose message is "Failed to sign the message: " and
\* the signer's error; sign throws no other error than this one and "Invalid
\* input types", and returns nothing then.
C7_SignerFailureWrapped ==
  /\ (/\ Called("sign")
      /\ IsString(call.args.message)
      /\ IsString(call.args.salt)
      /\ IsBuffer(call.args.privKeyBuffer)
      /\ ~IsPrivate(call.args.privKeyBuffer)) =>
       /\ outcome.kind = "throw"
       /\ outcome.err = Err("Error", "Failed to sign the message: "
                                       \o ErrText(Err("TypeError", "Expected Private")))
  /\ Threw("sign") =>
       /\ outcome.err.name = "Error"
       /\ outcome.err.message \in
            {"Invalid input types", "Failed to sign the message: TypeError: Expected Private"}

\* sign was given 32 zero bytes: the right length, no valid scalar
C7_Witness ==
  /\ Threw("sign")
  /\ call.args.privKeyBuffer = ZeroKey
  /\ IsString(call.args.message)
  /\ IsString(call.args.salt)
  /\ "signRecoverable" \in {outcome.calls[i] : i \in 1..Len(outcome.calls)}

\* C8: fromBigIntStr on a decimal string returns exactly length / 2 bytes,
\* big-endian and zero-padded, when the value fits, and throws when it does
\* not fit; it never returns a longer or a truncated buffer.
C8_FixedWidth ==
  (Called("fromBigIntStr") /\ call.args.input # <<>> /\ AllDec(call.args.input)) =>
    IF DigitsToNat(call.args.input, 10, 0) < 256 ^ HalfLen
      THEN outcome = Ret(Buf(BytesBE(DigitsToNat(call.args.input, 10, 0), HalfLen)), <<>>)
      ELSE outcome.kind = "throw"

\* objects a and b have the same keys in the same order, and the same values
\* under every key outside keys
SameBut(a, b, keys) ==
  /\ a.t = "object"
  /\ b.t = "object"
  /\ Len(a.v) = Len(b.v)
  /\ \A i \in 1..Len(a.v) :
       /\ a.v[i][1] = b.v[i][1]
       /\ a.v[i][1] \notin keys => a.v[i][2] = b.v[i][2]

\* C9: after signAndVerify returned, the signature sign returns for
\* baseMessage and the salt, and the hex of the hash of baseMessage + salt,
\* are in the object the salt was read from (draft.prv when the draft has a
\* prv object, else the draft), the rest of the draft is as given, and the
\* result is the JSON text of this final draft.
C9_SymmetricPlacement ==
  Returned("signAndVerify") =>
    /\ SameBut(Place(draft), Place(call.args.protocol), {kSig, kHash})
    /\ SameBut(draft, call.args.protocol,
               IF Truthy(Get(call.args.protocol, kPrv)) THEN {kPrv} ELSE {kSig, kHash})
    /\ IsString(Get(Place(call.args.protocol), kSalt))
    /\ Get(Place(draft), kSig)
         = sign(call.args.baseMessage, call.args.keypair.privKeyBuffer,
                Get(Place(call.args.protocol), kSalt)).val.signature
    /\ Get(Place(draft), kHash)
         = DigestHex(sha256(Str(call.args.baseMessage.v
                                  \o Get(Place(call.args.protocol), kSalt).v)))
    /\ Get(Place(draft), kSalt) = Get(Place(call.args.protocol), kSalt)
    /\ (Get(call.args.protocol, kPrv).t = "object") =>
         /\ Get(draft, kSig) = Get(call.args.protocol, kSig)
         /\ Get(draft, kHash) = Get(call.args.protocol, kHash)
    /\ outcome.val.result = JSONStringify(draft)

\* a draft with a prv object came back signed
C9_Witness ==
  /\ Returned("signAndVerify")
  /\ Get(call.args.protocol, kPrv).t = "object"
  /\ IsString(Get(Get(draft, kPrv), kHash))
  /\ outcome.val.test.valid = TRUE

\* the text of the self-check when every non-null messageKey selects the field
TextGivenKey ==
  IF call.args.messageKey # Null
    THEN TemplateText(JSONStringify(Get(draft, call.args.messageKey.v)))
    ELSE call.args.baseMessage.v

\* the text of the self-check when only a non-empty messageKey selects the field
TextNonEmptyKey ==
  IF call.args.messageKey \notin {Null, Str(<<>>)}
    THEN TemplateText(JSONStringify(Get(draft, call.args.messageKey.v)))
    ELSE call.args.baseMessage.v

\* C10 as stated: whenever messageKey is a string, the empty string included,
\* the self-check hashes JSON(draft[messageKey]) of the written draft with
\* the salt; only for a null messageKey it hashes baseMessage.
C10_AnyStringKeySelects ==
  (Called("signAndVerify") /\ probe # Undefined) =>
    probe = sha256(Str(TextGivenKey \o Get(Place(draft), kSalt).v))

\* C10 amended: whenever messageKey is a non-empty string, the self-check
\* hashes JSON(draft[messageKey]) of the written draft with the salt; for a
\* null or empty messageKey it hashes baseMessage.  When that text differs
\* from baseMessage, the verified hash differs from the hash in the draft.
C10_NonEmptyKeySelects ==
  (Called("signAndVerify") /\ probe # Undefined) =>
    /\ probe = sha256(Str(TextNonEmptyKey \o Get(Place(draft), kSalt).v))
    /\ (TextNonEmptyKey # call.args.baseMessage.v) =>
         DigestHex(probe) # Get(Place(draft), kHash)

\* the self-check ran with the empty string as messageKey
C10_Witness ==
  /\ Called("signAndVerify")
  /\ probe # Undefined
  /\ call.args.messageKey = Str(<<>>)
  /\ outcome.kind = "return"
  /\ outcome.val.test.valid = TRUE

\* r, s and v of a Signature are non-empty strings of decimal digits
WellFormed(sig) ==
  /\ sig.t = "object"
  /\ \A k \in {kR, kS, kV} :
       /\ IsString(Get(sig, k))
       /\ Get(sig, k).v # <<>>
       /\ AllDec(Get(sig, k).v)

\* verify was called with a well-formed Signature that the backend's verify
\* answers with false
BackendRejects ==
  /\ Called("verify")
  /\ WellFormed(call.args.signature)
  /\ joinSignature(call.args.signature).kind = "return"
  /\ eccVerify(call.args.hash, call.args.pubKeyBuffer,
               joinSignature(call.args.signature).val.signature) = Ret(FALSE, <<>>)

\* r or s of the Signature verify was called with is zero
ZeroRS ==
  \/ DigitsToNat(Get(call.args.signature, kR).v, 10, 0) = 0
  \/ DigitsToNat(Get(call.args.signature, kS).v, 10, 0) = 0

\* the hex text of 33 zero bytes
ZeroPointHex == [i \in 1..(2 * PubKeyLen) |-> "0"]

\* what the backend's recover answers for the Signature verify was called with
BackendRecovers ==
  eccRecover(call.args.hash, joinSignature(call.args.signature).val.signature,
             joinSignature(call.args.signature).val.recoveryId, TRUE)

C12_JoinShape ==
  /\ (/\ Called("joinSignature")
      /\ call.args.sig.t = "object"
      /\ \E k \in {kR, kS, kV} : ~IsString(Get(call.args.sig, k))) =>
       outcome = Throw(Err("Error", "Invalid signature format"), <<>>)
  /\ Returned("joinSignature") =>
       /\ Len(outcome.val.signature.v) = SigLen
       /\ outcome.val.recoveryId \in {Num(0), Num(1)}

\* the messages of the errors sign throws
SignErrors ==
  {"Invalid input types", "Failed to sign the message: TypeError: Expected Private"}

\* C13: signAndVerify changes nothing of the caller's draft but sig and hash
\* in the object the salt is read from: every other member of the draft (and
\* of prv, for a draft with a prv object) is as it was passed in, in the same
\* order; when sign throws, the draft is exactly as it was passed in.
C13_Frame ==
  /\ (Threw("signAndVerify") /\ outcome.err.message \in SignErrors) =>
       draft = call.args.protocol
  /\ (Called("signAndVerify") /\ ~(outcome.kind = "throw" /\ outcome.err.message \in SignErrors)) =>
       /\ SameBut(Place(draft), Place(call.args.protocol), {kSig, kHash})
       /\ IF Get(call.args.protocol, kPrv).t = "object"
            THEN SameBut(draft, call.args.protocol, {kPrv})
            ELSE Place(draft) = draft
       /\ Get(Place(draft), kSig).t = "object"
       /\ IsString(Get(Place(draft), kHash))

\* a flat draft with a payload came back with sig and hash set and the
\* payload in place
C13_Witness ==
  /\ Called("signAndVerify")
  /\ call.args.messageKey = Str(kAuth)
  /\ Get(call.args.protocol, kSig) = Null
  /\ Get(draft, kSig) # Null
  /\ Get(draft, kHash) # Null
  /\ Get(draft, kAuth) = Obj(<< <<tName, Str(tM)>> >>)

\* C14: whatever messageKey and payload signAuth is called with, the draft it
\* builds and signs has p = "tap", op = "privilege-auth", salt = the caller's
\* salt as a string, and sig and hash on the draft itself holding the
\* signature and the hash; the payload replaces none of these and does not
\* move the placement under prv.
C14_FixedFieldsSurvive ==
  (Called("signAuth") /\ ValidPair(call.args.privKey, call.args.pubKey)) =>
    /\ outcome.kind = "return"
    /\ Get(draft, kP) = Str(sTap)
    /\ Get(draft, kOp) = Str(sPrivilegeAuth)
    /\ Get(draft, kSalt) = Str(TemplateText(call.args.salt))
    /\ Get(draft, kSig).t = "object"
    /\ Get(draft, kHash) = DigestHex(sha256(Str(JSONText(call.args.message)
                                               \o TemplateText(call.args.salt))))
    /\ Place(draft) = draft

====
